---- MODULE Spec2Model ----
(***************************************************************************)
(* The single-file Flask login page (src/app.py): one hard-coded user, a   *)
(* signed-cookie session per client, and the three routes GET /,           *)
(* POST /login and POST /logout.                                           *)
(*                                                                         *)
(* Strings are sequences of one-character strings, so that str.strip() is  *)
(* computed rather than assumed.  JSON values are tagged records           *)
(* [t |-> type, v |-> value]; a JSON object is a function from its keys.   *)
(***************************************************************************)
EXTENDS Integers, Sequences, FiniteSets, TLC

\* ------------------------------------------------------------- bounds ----
MaxClients == 2
MaxPad == 1
MaxRestarts == 1

\* browsers, each with its own cookie jar
Clients == 1..MaxClients

\* ------------------------------------------------------------ strings ----
Whitespace == {" ", "\t", "\n", "\r"}

admin == <<"a", "d", "m", "i", "n">>
password123 == <<"p", "a", "s", "s", "w", "o", "r", "d", "1", "2", "3">>
bob == <<"b", "o", "b">>
pass == <<"p", "a", "s", "s">>

Spaces(n) == [i \in 1..n |-> " "]

\* core with up to MaxPad blanks distributed before and after it
Padded(core) ==
    {Spaces(q[1]) \o core \o Spaces(q[2]) :
        q \in {p \in (0..MaxPad) \X (0..MaxPad) : p[1] + p[2] <= MaxPad}}

RECURSIVE lstrip(_)
lstrip(s) ==
    IF s # <<>> /\ Head(s) \in Whitespace THEN lstrip(Tail(s)) ELSE s

RECURSIVE rstrip(_)
rstrip(s) ==
    IF s # <<>> /\ s[Len(s)] \in Whitespace
    THEN rstrip(SubSeq(s, 1, Len(s) - 1))
    ELSE s

\* str.lstrip() where str.strip() is meant
strip_left_only(s) == lstrip(s)

\* str.strip(): leading and trailing whitespace removed
strip(s) == rstrip(lstrip(s))

\* -------------------------------------------------------- JSON values ----
None == [t |-> "null", v |-> FALSE]
Bool(b) == [t |-> "bool", v |-> b]
Num(n) == [t |-> "num", v |-> n]
Str(s) == [t |-> "str", v |-> s]
Arr(a) == [t |-> "arr", v |-> a]
Obj(d) == [t |-> "obj", v |-> d]

EmptyDict == [k \in {} |-> None]

\* `x is not None` where `not x` is meant
TruthyNotNone(x) == x.t # "null"

\* Python truthiness, as `not x` evaluates it
Truthy(x) ==
    CASE x.t = "null" -> FALSE
      [] x.t = "bool" -> x.v
      [] x.t = "num" -> x.v # 0
      [] x.t = "str" -> Len(x.v) > 0
      [] x.t = "arr" -> Len(x.v) > 0
      [] x.t = "obj" -> DOMAIN x.v # {}

\* dict.get(key, default)
get(d, key, default) == IF key \in DOMAIN d THEN d[key] ELSE default

\* ------------------------------------------------------- request bodies --
Absent == [t |-> "absent", v |-> FALSE]

NonStrings == {None, Num(5)}

UsernameFields ==
    {Str(s) : s \in Padded(<<>>) \cup Padded(admin) \cup {bob}}
        \cup NonStrings \cup {Absent}

PasswordFields ==
    {Str(s) : s \in Padded(<<>>) \cup Padded(password123) \cup {pass}}
        \cup NonStrings \cup {Absent}

\* the JSON object {"username": u, "password": p}, a key left out when Absent
Credentials(u, p) ==
    Obj([k \in {x \in {"username", "password"} :
                    \/ x = "username" /\ u # Absent
                    \/ x = "password" /\ p # Absent}
            |-> IF k = "username" THEN u ELSE p])

JSONBodies ==
    {Credentials(u, p) : u \in UsernameFields, p \in PasswordFields}
        \cup {Obj([k \in {"other"} |-> Num(5)])}
        \cup {None, Bool(FALSE), Bool(TRUE), Num(0), Num(5), Str(<<>>),
              Str(bob), Arr(<<>>), Arr(<<Num(5)>>)}

\* a body that is not JSON (or not sent as JSON) carries no parsed value
NotJSON == [is_json |-> FALSE, value |-> None]

Requests == {NotJSON} \cup {[is_json |-> TRUE, value |-> b] : b \in JSONBodies}

\* the bodies sent to /login across a restart
RestartRequests ==
    {NotJSON,
     [is_json |-> TRUE, value |-> Credentials(Str(admin), Str(password123))],
     [is_json |-> TRUE, value |-> Credentials(Str(admin), Str(pass))]}

\* /logout reads no body; a few are sent to it all the same
LogoutRequests ==
    {NotJSON,
     [is_json |-> TRUE, value |-> Credentials(Str(admin), Str(password123))],
     [is_json |-> TRUE, value |-> Arr(<<Num(5)>>)]}

NoRequest == NotJSON

\* request.get_json(silent=True): the parsed value, None when there is none
get_json(req) == IF req.is_json THEN req.value ELSE None

\* ------------------------------------------------------ password hash ----
\* the salted one-way digest, taken to be collision free
Digest(salt, password) == <<salt, password>>

generate_password_hash(password, salt) ==
    [salt |-> salt, digest |-> Digest(salt, password)]

check_password_hash(pwhash, password) ==
    Digest(pwhash.salt, password) = pwhash.digest

\* ------------------------------------------------------------- state -----
VARIABLES
    secret_key,   \* app.secret_key of the running process
    USER,         \* the credential record of the running process
    environ,      \* the process environment (a dict)
    cookie,       \* cookie[c]: the session cookie client c holds, <<>> if none
    restarts,     \* process starts so far, less one
    hist,         \* hist[c]: "login" when the last authentication event of
                  \* client c in this process is a login answered 200
    last          \* the last operation: who, what, request and response

vars == <<secret_key, USER, environ, cookie, restarts, hist, last>>

\* secrets.token_urlsafe(32): 256 random bits; the n-th draw is taken to
\* differ from every earlier draw and from any configured value
token_urlsafe(n) == [kind |-> "random", id |-> n]

ConfiguredSecret == [kind |-> "configured", id |-> 0]

Environments == {EmptyDict, [k \in {"SECRET_KEY"} |-> ConfiguredSecret]}

\* os.environ.get("SECRET_KEY", secrets.token_urlsafe(32))
NewSecretKeyFromEnv(env, n) == get(env, "SECRET_KEY", token_urlsafe(n))

\* the secret a process starting as the n-th one signs its sessions with
NewSecretKey(env, n) == token_urlsafe(n)

\* the credential record a process starting as the n-th one builds
NewUser(n) ==
    [username |-> admin,
     password_hash |-> generate_password_hash(password123, n)]

\* ---------------------------------------------------- session cookies ----
\* the session of a request: the cookie's payload when its signature
\* verifies under the current secret, an empty session otherwise
open_session(jar) ==
    IF jar # <<>> /\ jar[1].key = secret_key THEN jar[1].data ELSE EmptyDict

\* a response that never deletes the cookie
save_session_never_deletes(jar, sess, modified) ==
    IF ~modified \/ DOMAIN sess = {} THEN jar
    ELSE <<[key |-> secret_key, data |-> sess]>>

\* the cookie the response leaves in the jar: a modified session is signed
\* and set, a modified empty session deletes the cookie, an unmodified one
\* sends nothing
save_session(jar, sess, modified) ==
    IF ~modified THEN jar
    ELSE IF DOMAIN sess = {} THEN <<>>
    ELSE <<[key |-> secret_key, data |-> sess]>>

\* ----------------------------------------------------------- responses ---
Result(sess, modified, status, body) ==
    [session |-> sess, modified |-> modified, status |-> status, body |-> body]

Error(message) == [k \in {"error"} |-> message]

\* an exception escaping the view function: Flask answers 500 with a page
\* that is not JSON; the session is not written
InternalServerError(sess) ==
    Result(sess, FALSE, 500, [k \in {"html"} |-> "Internal Server Error"])

\* the four ways /login returns
InvalidRequest(sess) ==
    Result(sess, FALSE, 400, Error("Invalid request body, JSON expected."))

MissingCredentials(sess) ==
    Result(sess, FALSE, 400, Error("Username and password are required."))

\* a failed attempt that also drops the session
InvalidCredentialsClears(sess) ==
    Result(EmptyDict, DOMAIN sess # {}, 401, Error("Invalid credentials."))

InvalidCredentials(sess) ==
    Result(sess, FALSE, 401, Error("Invalid credentials."))

\* session["user"] = username, and the 200 answer
LoggedIn(sess, username) ==
    Result([k \in DOMAIN sess \cup {"user"} |->
               IF k = "user" THEN username ELSE sess[k]],
           TRUE, 200,
           [message |-> "Logged in", username |-> username])

\* -------------------------------------------------------------- routes ---
index(sess) ==
    LET logged_in == get(sess, "user", None) = Str(USER.username)
        username == IF logged_in THEN get(sess, "user", None) ELSE Str(<<>>)
    IN  Result(sess, FALSE, 200,
               [view |-> IF logged_in THEN "welcome" ELSE "login",
                username |-> username])

login(sess, req) ==
    LET data == get_json(req) IN
    IF ~Truthy(data)
    THEN InvalidRequest(sess)
    ELSE IF data.t # "obj"
    THEN InternalServerError(sess)
    ELSE
    LET u == get(data.v, "username", Str(<<>>)) IN
    IF u.t # "str"
    THEN InternalServerError(sess)
    ELSE
    LET username == Str(strip(u.v))
        password == get(data.v, "password", Str(<<>>))
    IN
    IF ~Truthy(username) \/ ~Truthy(password)
    THEN MissingCredentials(sess)
    ELSE IF username # Str(USER.username)
    THEN InvalidCredentials(sess)
    ELSE IF password.t # "str"
    THEN InternalServerError(sess)
    ELSE IF ~check_password_hash(USER.password_hash, password.v)
    THEN InvalidCredentials(sess)
    ELSE LoggedIn(sess, username)

\* del session["user"] where session.pop("user", None) is meant
logout_del(sess) ==
    IF "user" \in DOMAIN sess
    THEN Result([k \in DOMAIN sess \ {"user"} |-> sess[k]], TRUE, 200,
                [k \in {"message"} |-> "Logged out"])
    ELSE InternalServerError(sess)

logout(sess) ==
    Result([k \in DOMAIN sess \ {"user"} |-> sess[k]],
           "user" \in DOMAIN sess, 200,
           [k \in {"message"} |-> "Logged out"])

\* ------------------------------------------------------------- actions ---
\* one session kept in a module-level global, shared by every client
ServedGlobalSession(c, op, req, r) ==
    /\ cookie' = [d \in Clients |->
                    save_session(cookie[d], r.session, r.modified)]
    /\ last' = [client |-> c, op |-> op, req |-> req,
                resp |-> [status |-> r.status, body |-> r.body]]

\* the response to client c: its cookie jar takes the session cookie, and
\* the exchange is recorded
Served(c, op, req, r) ==
    /\ cookie' = [cookie EXCEPT ![c] = save_session(cookie[c], r.session, r.modified)]
    /\ last' = [client |-> c, op |-> op, req |-> req,
                resp |-> [status |-> r.status, body |-> r.body]]

Init ==
    /\ environ \in Environments
    /\ restarts = 0
    /\ secret_key = NewSecretKey(environ, 0)
    /\ USER = NewUser(0)
    /\ cookie = [c \in Clients |-> <<>>]
    /\ hist = [c \in Clients |-> "none"]
    /\ last = [client |-> 0, op |-> "start", req |-> NoRequest,
               resp |-> [status |-> 0, body |-> EmptyDict]]

Index(c) ==
    /\ Served(c, "index", NoRequest, index(open_session(cookie[c])))
    /\ UNCHANGED <<secret_key, USER, environ, restarts, hist>>

Login(c, req) ==
    LET r == login(open_session(cookie[c]), req) IN
    /\ Served(c, "login", req, r)
    /\ hist' = [hist EXCEPT ![c] = IF r.status = 200 THEN "login" ELSE @]
    /\ UNCHANGED <<secret_key, USER, environ, restarts>>

Logout(c, req) ==
    /\ Served(c, "logout", req, logout(open_session(cookie[c])))
    /\ hist' = [hist EXCEPT ![c] = "none"]
    /\ UNCHANGED <<secret_key, USER, environ, restarts>>

\* the process is stopped and started again: the module level runs anew,
\* the clients keep their cookies
Restart ==
    /\ restarts < MaxRestarts
    /\ restarts' = restarts + 1
    /\ secret_key' = NewSecretKey(environ, restarts + 1)
    /\ USER' = NewUser(restarts + 1)
    /\ hist' = [c \in Clients |-> "none"]
    /\ last' = [client |-> 0, op |-> "restart", req |-> NoRequest,
                resp |-> [status |-> 0, body |-> EmptyDict]]
    /\ UNCHANGED <<environ, cookie>>

Next ==
    \/ \E c \in Clients : Index(c)
    \/ \E c \in Clients, req \in Requests : Login(c, req)
    \/ \E c \in Clients, req \in LogoutRequests : Logout(c, req)

Spec == Init /\ [][Next]_vars

NextRestart ==
    \/ \E c \in Clients : Index(c)
    \/ \E c \in Clients, req \in RestartRequests : Login(c, req)
    \/ \E c \in Clients, req \in LogoutRequests : Logout(c, req)
    \/ Restart

SpecRestart == Init /\ [][NextRestart]_vars

\* ===================================================== properties ========
\* what the properties say about the exchange recorded in `last`
LastBody == last.req.value
LastIsObject == last.req.is_json /\ LastBody.t = "obj"
Has(key) == key \in DOMAIN LastBody.v
Field(key) == LastBody.v[key]
IsString(key) == Has(key) /\ Field(key).t = "str"
Status == last.resp.status
HasError == "error" \in DOMAIN last.resp.body

\* s is core with nothing but whitespace before and after it
Surrounds(s, core) ==
    \E i \in 0..Len(s) :
        /\ i + Len(core) <= Len(s)
        /\ SubSeq(s, i + 1, i + Len(core)) = core
        /\ \A k \in 1..i : s[k] \in Whitespace
        /\ \A k \in (i + Len(core) + 1)..Len(s) : s[k] \in Whitespace

Blank(s) == \A k \in 1..Len(s) : s[k] \in Whitespace

\* client c holds a cookie the running process accepts and that carries the
\* marker of the one user
Authenticated(c) ==
    /\ cookie[c] # <<>>
    /\ cookie[c][1].key = secret_key
    /\ "user" \in DOMAIN cookie[c][1].data
    /\ cookie[c][1].data["user"] = Str(admin)

LoggedInBody == [message |-> "Logged in", username |-> Str(admin)]

\* a /login exchange whose body is an object with two string fields
StringPair ==
    /\ last.op = "login"
    /\ LastIsObject
    /\ IsString("username")
    /\ IsString("password")

\* C1 as claimed: over string pairs, ("admin", "password123") is the one
\* pair answered 200 (with the Logged in body); every other pair is not.
C1_OnlyOnePair ==
    StringPair =>
        /\ Status = 200 <=>
              /\ Field("username").v = admin
              /\ Field("password").v = password123
        /\ Status = 200 => last.resp.body = LoggedInBody

\* C1 amended: over string pairs, the pairs answered 200 are exactly those
\* whose username is "admin" with any whitespace around it and whose
\* password is exactly "password123"; the body echoes the trimmed "admin".
C1_OnlyAdminTrimmed ==
    StringPair =>
        /\ Status = 200 <=>
              /\ Surrounds(Field("username").v, admin)
              /\ Field("password").v = password123
        /\ Status = 200 => last.resp.body = LoggedInBody

C1_Witness ==
    /\ StringPair
    /\ Status = 200
    /\ Field("username").v # admin

C3_NoServerError ==
    last.op = "login" =>
        /\ Status \in {200, 400, 401}
        /\ Status # 200 => HasError
        /\ ~last.req.is_json => Status = 400

\* C4: with both fields non-empty, a username that does not match and the
\* matching username with a wrong password get the same answer, 401
\* "Invalid credentials.", and neither changes the session.
C4_Indistinguishable ==
    [][(/\ last'.op = "login"
        /\ last'.req.is_json
        /\ last'.req.value.t = "obj"
        /\ {"username", "password"} \subseteq DOMAIN last'.req.value.v
        /\ last'.req.value.v["username"].t = "str"
        /\ ~Blank(last'.req.value.v["username"].v)
        /\ last'.req.value.v["password"] \notin {None, Str(<<>>)}
        /\ \/ ~Surrounds(last'.req.value.v["username"].v, admin)
           \/ last'.req.value.v["password"] # Str(password123))
       => /\ last'.resp = [status |-> 401,
                           body |-> [k \in {"error"} |-> "Invalid credentials."]]
          /\ cookie' = cookie]_vars

\* C5: GET / after a login answered 200, with no logout since, renders the
\* welcome view with the username; GET / with no such login since the last
\* logout (or at all) renders the login form.
C5_ViewFollowsSession ==
    last.op = "index" =>
        /\ Status = 200
        /\ hist[last.client] = "login" =>
              last.resp.body = [view |-> "welcome", username |-> Str(admin)]
        /\ hist[last.client] # "login" =>
              last.resp.body = [view |-> "login", username |-> Str(<<>>)]

C5_Witness ==
    /\ last.op = "index"
    /\ hist[last.client] = "login"
    /\ last.resp.body.view = "welcome"

\* C6: /logout answers 200 "Logged out" whatever the session and the body,
\* leaves no accepted marker, and a logout right after a logout gives the
\* same answer and leaves the cookie jar as it was.
C6_LogoutIdempotent ==
    /\ [](last.op = "logout" =>
            /\ last.resp = [status |-> 200,
                            body |-> [k \in {"message"} |-> "Logged out"]]
            /\ ~Authenticated(last.client)
            /\ \/ cookie[last.client] = <<>>
               \/ cookie[last.client][1].key # secret_key)
    /\ [][(/\ last.op = "logout"
           /\ last'.op = "logout"
           /\ last'.client = last.client)
          => last'.resp = last.resp /\ cookie' = cookie]_vars

C6_Witness ==
    /\ last.op = "logout"
    /\ last.req.is_json
    /\ cookie[last.client] # <<>>

\* the answer the ordered checks of C7 give to the recorded /login body
C7_Expected ==
    IF ~last.req.is_json THEN 400
    ELSE IF \/ ~Has("username")
            \/ Field("username") \in {None, Str(<<>>)}
            \/ Field("username").t = "str" /\ Blank(Field("username").v)
            \/ ~Has("password")
            \/ Field("password") \in {None, Str(<<>>)}
    THEN 400
    ELSE IF ~(Field("username").t = "str"
              /\ Surrounds(Field("username").v, admin))
    THEN 401
    ELSE IF Field("password") # Str(password123)
    THEN 401
    ELSE 200

\* C7: the checks run in order (body, empty field, username, password), the
\* first that fails gives the status, and only when all pass is the answer
\* 200 with the username echoed and the session marked.
C7_ChecksInOrder ==
    (last.op = "login" /\ (LastIsObject \/ ~last.req.is_json)) =>
        /\ Status = C7_Expected
        /\ Status = 200 =>
              /\ last.resp.body = LoggedInBody
              /\ Authenticated(last.client)

\* C8 as claimed: a secret configured in the environment is the signing
\* secret, so a session accepted before a restart is accepted after it;
\* with none configured no earlier session is accepted after a restart.
C8_SecretFromEnvironment ==
    [][last'.op = "restart" =>
          IF "SECRET_KEY" \in DOMAIN environ
          THEN \A c \in Clients : Authenticated(c) => Authenticated(c)'
          ELSE \A c \in Clients : ~Authenticated(c)']_vars

\* C8 amended: the signing secret is drawn at random at every process
\* start and the environment is not consulted, so after a restart no
\* session issued before it is accepted, whatever the environment holds.
C8_SecretAlwaysRandom ==
    /\ [](secret_key.kind = "random")
    /\ [][last'.op = "restart" =>
             /\ secret_key' # secret_key
             /\ \A c \in Clients : ~Authenticated(c)']_vars

C8_Witness ==
    /\ last.op = "restart"
    /\ "SECRET_KEY" \in DOMAIN environ
    /\ \E c \in Clients : cookie[c] # <<>> /\ cookie[c][1].data # EmptyDict

\* the page GET / would render for client c
ViewOf(c) == index(open_session(cookie[c])).body

\* C9: a request of one client leaves every other client's cookie, and the
\* page GET / renders for it, as they were, and no request changes the
\* credential record.
C9_ClientsIndependent ==
    [][last'.op \in {"index", "login", "logout"} =>
          /\ USER' = USER
          /\ \A d \in Clients \ {last'.client} :
                /\ cookie'[d] = cookie[d]
                /\ ViewOf(d)' = ViewOf(d)]_vars

C9_Witness ==
    /\ last.op \in {"login", "logout"}
    /\ \E d \in Clients \ {last.client} : Authenticated(d)

\* C10: a /login answered 400 or 401, and a GET /, leave the cookie jars as
\* they were (a failed attempt does not log out), and the marker of any
\* session is absent or "admin".
C10_OnlySuccessWrites ==
    /\ [](\A c \in Clients :
            cookie[c] # <<>> =>
                get(cookie[c][1].data, "user", Str(admin)) = Str(admin))
    /\ [][(\/ last'.op = "index"
           \/ last'.op = "login" /\ last'.resp.status \in {400, 401})
          => cookie' = cookie]_vars

C10_Witness ==
    /\ last.op = "login"
    /\ Status = 401
    /\ Authenticated(last.client)
====
